---- MODULE Spec2Model ----
(***************************************************************************)
(* Model of ltgp_cac_calculator.rs: input acquisition (command-line        *)
(* arguments and the guided prompts) followed by the evaluation and the    *)
(* report printed by main.                                                 *)
(*                                                                         *)
(* An f64 is modelled as an exact fraction <<num, den>> with den > 0;      *)
(* <<1,0>>, <<-1,0>> and <<0,0>> stand for +inf, -inf and NaN.  An          *)
(* Option<T> is a sequence of length 0 (None) or 1 (Some).  A string is a  *)
(* sequence of characters.                                                 *)
(*                                                                         *)
(* The command-line arguments range over finite numbers, negative ones     *)
(* included; the lines typed at a numeric prompt range over every string   *)
(* of at most MaxLen characters of NumChars and a few longer ones, the     *)
(* non-finite literals included.                                           *)
(***************************************************************************)
EXTENDS Integers, Sequences, FiniteSets, TLC

VARIABLES args, pc, input, coll, console,
          cac, cfa, ltgp, early_gp, period, low_cac_fraction,
          low_cac_thresh, net_outlay, ratio, cac_label, cfa_label,
          quadrant, verdict, ppd_est, days_equiv

vars == <<args, pc, input, coll, console,
          cac, cfa, ltgp, early_gp, period, low_cac_fraction,
          low_cac_thresh, net_outlay, ratio, cac_label, cfa_label,
          quadrant, verdict, ppd_est, days_equiv>>

inputVars == <<cac, cfa, ltgp, early_gp, period, low_cac_fraction>>

resultVars == <<low_cac_thresh, net_outlay, ratio, cac_label, cfa_label,
                quadrant, verdict, ppd_est>>

(* Longest line typed at a numeric prompt. *)
MaxLen == 2

-----------------------------------------------------------------------------
(* Option<T> *)

None == <<>>

Some(v) == <<v>>

UnwrapOr(o, d) == IF o = None THEN d ELSE o[1]

-----------------------------------------------------------------------------
(* f64 *)

RECURSIVE GCD(_, _)
GCD(a, b) == IF b = 0 THEN a ELSE GCD(b, a % b)

Abs(n) == IF n < 0 THEN -n ELSE n

Norm(n, d) == LET g == GCD(Abs(n), d) IN <<n \div g, d \div g>>

F(n) == <<n, 1>>

PosInf == <<1, 0>>

NegInf == <<-1, 0>>

NaN == <<0, 0>>

Zero == F(0)

IsFinite(a) == a[2] # 0

\* a <= b, for a and b finite or +inf
FLe(a, b) ==
    IF a = PosInf THEN b = PosInf
    ELSE IF b = PosInf THEN TRUE
    ELSE a[1] * b[2] <= b[1] * a[2]

FGe(a, b) == FLe(b, a)

FGt(a, b) == ~FLe(a, b)

FSub(a, b) == Norm(a[1] * b[2] - b[1] * a[2], a[2] * b[2])

FMul(a, b) == Norm(a[1] * b[1], a[2] * b[2])

\* a / b, used with b > 0 only
FDiv(a, b) == Norm(a[1] * b[2], a[2] * b[1])

FMax(a, b) == IF FLe(a, b) THEN b ELSE a

FMin(a, b) == IF FLe(a, b) THEN a ELSE b

-----------------------------------------------------------------------------
(* Strings *)

LowerChar(c) ==
    CASE c = "A" -> "a" [] c = "D" -> "d" [] c = "E" -> "e"
      [] c = "K" -> "k" [] c = "R" -> "r" [] c = "S" -> "s"
      [] c = "W" -> "w" [] c = "Y" -> "y" [] OTHER -> c

ToLowercase(s) == [i \in 1..Len(s) |-> LowerChar(s[i])]

EqIgnoreAsciiCase(a, b) == ToLowercase(a) = ToLowercase(b)

Replace(s, c) == SelectSeq(s, LAMBDA x : x # c)

RECURSIVE TrimStart(_)
TrimStart(s) ==
    IF s # <<>> /\ Head(s) = " " THEN TrimStart(Tail(s)) ELSE s

RECURSIVE TrimEnd(_)
TrimEnd(s) ==
    IF s # <<>> /\ s[Len(s)] = " " THEN TrimEnd(SubSeq(s, 1, Len(s) - 1)) ELSE s

Trim(s) == TrimEnd(TrimStart(s))

Digits == {"1", "2"}

DigitVal(c) == IF c = "1" THEN 1 ELSE 2

RECURSIVE DecVal(_)
DecVal(s) ==
    IF s = <<>> THEN 0
    ELSE 10 * DecVal(SubSeq(s, 1, Len(s) - 1)) + DigitVal(s[Len(s)])

\* str::parse::<f64> on the characters the model types
ParseF64(s) ==
    LET neg  == s # <<>> /\ Head(s) = "-"
        body == IF neg THEN Tail(s) ELSE s
    IN  IF body = <<>> THEN None
        ELSE IF body = <<"inf">> THEN Some(IF neg THEN NegInf ELSE PosInf)
        ELSE IF body = <<"NaN">> THEN Some(NaN)
        ELSE IF \A i \in 1..Len(body) : body[i] \in Digits
             THEN Some(F(IF neg THEN -DecVal(body) ELSE DecVal(body)))
        ELSE None

ParseMoneyLike(s) ==
    LET cleaned == Trim(Replace(Replace(s, ","), "$"))
    IN  IF cleaned = <<>> THEN None ELSE ParseF64(cleaned)

-----------------------------------------------------------------------------
(* What the user can give *)

SeqsUpTo(S, n) == UNION {[1..k -> S] : k \in 0..n}

NumChars == {"2", "-", "$"}

NumEntries ==
    SeqsUpTo(NumChars, MaxLen)
        \cup {<<"inf">>, <<"NaN">>, <<"2", ",", "2">>, <<" ", "2", " ">>,
              <<"$", " ", "2">>, <<"2", " ", "2">>}

Days == <<"d", "a", "y", "s">>

Weeks == <<"w", "e", "e", "k", "s">>

Months == <<"m", "o", "n", "t", "h", "s">>

Years == <<"y", "e", "a", "r", "s">>

Choices == <<Days, Weeks, Months, Years>>

Hours == <<"h", "o", "u", "r", "s">>

ChoiceEntries ==
    {<<>>, Days, Weeks, Months, Years, Hours,
     <<"D", "A", "Y", "S">>, <<" ", "Y", "e", "a", "r", "s">>}

ArgCac == {None, Some(F(-1)), Some(F(2))}

ArgCfa == {None, Some(F(-1)), Some(F(1))}

ArgLtgp == {None, Some(F(-1)), Some(F(6)), Some(F(7))}

ArgEarlyGp == {None, Some(F(-1)), Some(F(2))}

ArgPeriod == {None, Some(<<"W", "e", "e", "k", "s">>), Some(Hours)}

ArgLowCacFraction ==
    {None, Some(<<-1, 2>>), Some(<<3, 2>>)}

Args ==
    [interactive : BOOLEAN, cac : ArgCac, cfa : ArgCfa, ltgp : ArgLtgp,
     early_gp_rate : ArgEarlyGp, period : ArgPeriod,
     low_cac_fraction : ArgLowCacFraction]

-----------------------------------------------------------------------------
(* Input acquisition *)

NumFields == {"cac", "cfa", "ltgp", "early_gp_rate", "low_cac_fraction"}

Fields == NumFields \cup {"period"}

NextPc(f) ==
    CASE f = "cac" -> "cfa"
      [] f = "cfa" -> "ltgp"
      [] f = "ltgp" -> "early_gp_rate"
      [] f = "early_gp_rate" -> "period"
      [] f = "period" -> "low_cac_fraction"
      [] f = "low_cac_fraction" -> "ret"

default_period == Days

default_low_frac == <<1, 10>>

DefaultOf(f) ==
    CASE f = "cac" -> None
      [] f = "cfa" -> Some(Zero)
      [] f = "ltgp" -> None
      [] f = "early_gp_rate" -> Some(Zero)
      [] f = "low_cac_fraction" -> Some(default_low_frac)

Unset == <<>>

NoLocals == [f \in Fields |-> Unset]

NoInput == <<>>

\* prompt_f64_with_context without the is_finite test
PromptF64_NoFiniteTest(line, default) ==
    IF line = <<>> /\ default # None THEN Some(FMax(default[1], Zero))
    ELSE LET v == ParseMoneyLike(line)
         IN  IF v # None THEN Some(FMax(v[1], Zero)) ELSE None

\* One pass of the loop of prompt_f64_with_context on the line read:
\* Some(value returned) or None (message, prompt again).
PromptF64(line, default) ==
    IF line = <<>> /\ default # None THEN Some(FMax(default[1], Zero))
    ELSE LET v == ParseMoneyLike(line)
         IN  IF v # None /\ IsFinite(v[1]) THEN Some(FMax(v[1], Zero))
             ELSE None

\* One pass of the loop of prompt_choice_with_context on the line read.
PromptChoice(line, choices, default) ==
    LET choice == IF Trim(line) = <<>> THEN default
                  ELSE ToLowercase(Trim(line))
    IN  IF \E i \in 1..Len(choices) : EqIgnoreAsciiCase(choices[i], choice)
        THEN Some(choice) ELSE None

need_interactive ==
    \/ args.interactive
    \/ args.cac = None
    \/ args.ltgp = None
    \/ args.cfa = None
    \/ args.early_gp_rate = None
    \/ args.period = None
    \/ args.low_cac_fraction = None

Init ==
    /\ args \in Args
    /\ pc = "collect"
    /\ input = NoInput
    /\ coll = NoLocals
    /\ console = "none"
    /\ cac = Unset /\ cfa = Unset /\ ltgp = Unset /\ early_gp = Unset
    /\ period = Unset /\ low_cac_fraction = Unset
    /\ low_cac_thresh = Unset /\ net_outlay = Unset /\ ratio = Unset
    /\ cac_label = "none" /\ cfa_label = "none" /\ quadrant = "none"
    /\ verdict = "none" /\ ppd_est = None /\ days_equiv = None

\* maybe_interactive_collect, else branch
CollectArgs ==
    /\ pc = "collect"
    /\ ~need_interactive
    /\ cac' = args.cac[1]
    /\ cfa' = FMax(UnwrapOr(args.cfa, Zero), Zero)
    /\ ltgp' = args.ltgp[1]
    /\ early_gp' = FMax(UnwrapOr(args.early_gp_rate, Zero), Zero)
    /\ period' = ToLowercase(UnwrapOr(args.period, Days))
    /\ low_cac_fraction' = UnwrapOr(args.low_cac_fraction, <<1, 10>>)
    /\ pc' = "eval"
    /\ UNCHANGED <<args, input, coll, console, resultVars, days_equiv>>

Welcome ==
    /\ pc = "collect"
    /\ need_interactive
    /\ console' = "welcome"
    /\ pc' = "cac"
    /\ UNCHANGED <<args, input, coll, inputVars, resultVars, days_equiv>>

\* args.<f>.unwrap_or_else(..) when the argument was given
UseArg ==
    /\ pc \in Fields
    /\ args[pc] # None
    /\ coll' = [coll EXCEPT ![pc] = args[pc][1]]
    /\ pc' = NextPc(pc)
    /\ UNCHANGED <<args, input, console, inputVars, resultVars, days_equiv>>

ReadLine ==
    /\ pc \in Fields
    /\ args[pc] = None
    /\ input = NoInput
    /\ \E e \in (IF pc = "period" THEN ChoiceEntries ELSE NumEntries) :
          input' = Some(Trim(e))
    /\ console' = "prompt"
    /\ UNCHANGED <<args, pc, coll, inputVars, resultVars, days_equiv>>

PromptF64Step ==
    /\ pc \in NumFields
    /\ input # NoInput
    /\ LET r == PromptF64(input[1], DefaultOf(pc))
       IN  IF r # None
           THEN /\ coll' = [coll EXCEPT ![pc] = r[1]]
                /\ pc' = NextPc(pc)
                /\ UNCHANGED console
           ELSE /\ console' = "invalid_number"
                /\ UNCHANGED <<coll, pc>>
    /\ input' = NoInput
    /\ UNCHANGED <<args, inputVars, resultVars, days_equiv>>

PromptChoiceStep ==
    /\ pc = "period"
    /\ input # NoInput
    /\ LET r == PromptChoice(input[1], Choices, default_period)
       IN  IF r # None
           THEN /\ coll' = [coll EXCEPT ![pc] = r[1]]
                /\ pc' = NextPc(pc)
                /\ UNCHANGED console
           ELSE /\ console' = "invalid_choice"
                /\ UNCHANGED <<coll, pc>>
    /\ input' = NoInput
    /\ UNCHANGED <<args, inputVars, resultVars, days_equiv>>

\* maybe_interactive_collect, the tuple returned by the guided branch
CollectGuided ==
    /\ pc = "ret"
    /\ cac' = coll["cac"]
    /\ cfa' = FMax(coll["cfa"], Zero)
    /\ ltgp' = coll["ltgp"]
    /\ early_gp' = FMax(coll["early_gp_rate"], Zero)
    /\ period' = ToLowercase(coll["period"])
    /\ low_cac_fraction' = coll["low_cac_fraction"]
    /\ coll' = NoLocals
    /\ pc' = "eval"
    /\ UNCHANGED <<args, input, console, resultVars, days_equiv>>

-----------------------------------------------------------------------------
(* Evaluation *)

Half == <<1, 2>>

Three == F(3)

LowCacThresh(frac, l) == FMul(FMin(FMax(frac, Zero), F(1)), l)

\* net outlay that is not floored at zero
NetOutlay_NoFloor(c, a) == FSub(c, a)

NetOutlay(c, a) == FMax(FSub(c, a), Zero)

\* ratio that is zero, not infinite, when cac is zero
Ratio_ZeroCac(l, c) == IF FGt(c, Zero) THEN FDiv(l, c) ELSE Zero

Ratio(l, c) == IF FGt(c, Zero) THEN FDiv(l, c) ELSE PosInf

\* strict comparison: a tie is High
CacLabel_Strict(c, thresh) == IF FGt(thresh, c) THEN "Low" ELSE "High"

CacLabel(c, thresh) == IF FLe(c, thresh) THEN "Low" ELSE "High"

\* comparison against the whole of cac instead of half of it
CfaLabel_WholeCac(a, c) == IF FGt(a, c) THEN "High" ELSE "Low"

\* comparison the wrong way round
CfaLabel_Reversed(a, c) == IF FLe(a, FMul(c, Half)) THEN "High" ELSE "Low"

CfaLabel(a, c) == IF FGe(a, FMul(c, Half)) THEN "High" ELSE "Low"

Quadrant(c, thresh, a) ==
    LET k == <<FLe(c, thresh), FGe(a, FMul(c, Half))>>
    IN  CASE k = <<TRUE, TRUE>> -> "SelfFundingGrowth"
          [] k = <<TRUE, FALSE>> -> "CashLightEfficiency"
          [] k = <<FALSE, TRUE>> -> "DeferredCashRisk"
          [] k = <<FALSE, FALSE>> -> "CapitalIntensiveTrap"

\* first branch on ratio < 3.0
Verdict_Strict(r, n, c, thresh, a) ==
    IF FGt(Three, r)
    THEN IF n = Zero THEN "WarningSmallProfit" ELSE "Unsustainable"
    ELSE IF n = Zero THEN "Excellent"
         ELSE IF FLe(c, thresh) THEN "Good"
         ELSE IF FGe(a, FMul(c, Half)) THEN "Caution"
         ELSE "Fragile"

Verdict(r, n, c, thresh, a) ==
    IF FLe(r, Three)
    THEN IF n = Zero THEN "WarningSmallProfit" ELSE "Unsustainable"
    ELSE IF n = Zero THEN "Excellent"
         ELSE IF FLe(c, thresh) THEN "Good"
         ELSE IF FGe(a, FMul(c, Half)) THEN "Caution"
         ELSE "Fragile"

\* product in place of the quotient
PpdEst_Product(n, e) == IF FGt(e, Zero) THEN Some(FMul(n, e)) ELSE None

PpdEst(n, e) == IF FGt(e, Zero) THEN Some(FDiv(n, e)) ELSE None

\* months of 31 days
DaysEquivalent_Month31(value, p) ==
    CASE p = Days -> value
      [] p = Weeks -> FMul(value, F(7))
      [] p = Months -> FMul(value, F(31))
      [] p = Years -> FMul(value, F(365))
      [] OTHER -> value

DaysEquivalent(value, p) ==
    CASE p = Days -> value
      [] p = Weeks -> FMul(value, F(7))
      [] p = Months -> FMul(value, F(30))
      [] p = Years -> FMul(value, F(365))
      [] OTHER -> value

Evaluate ==
    /\ pc = "eval"
    /\ LET thresh == LowCacThresh(low_cac_fraction, ltgp)
           n      == NetOutlay(cac, cfa)
           r      == Ratio(ltgp, cac)
       IN  /\ low_cac_thresh' = thresh
           /\ net_outlay' = n
           /\ ratio' = r
           /\ cac_label' = CacLabel(cac, thresh)
           /\ cfa_label' = CfaLabel(cfa, cac)
           /\ quadrant' = Quadrant(cac, thresh, cfa)
           /\ verdict' = Verdict(r, n, cac, thresh, cfa)
           /\ ppd_est' = PpdEst(n, early_gp)
    /\ pc' = "report"
    /\ UNCHANGED <<args, input, coll, console, inputVars, days_equiv>>

Report ==
    /\ pc = "report"
    /\ IF ppd_est # None
       THEN /\ days_equiv' = Some(DaysEquivalent(ppd_est[1], period))
            /\ console' = "payback"
       ELSE /\ days_equiv' = None
            /\ console' = "no_payback"
    /\ pc' = "done"
    /\ UNCHANGED <<args, input, coll, inputVars, resultVars>>

Next ==
    \/ CollectArgs
    \/ Welcome
    \/ UseArg
    \/ ReadLine
    \/ PromptF64Step
    \/ PromptChoiceStep
    \/ CollectGuided
    \/ Evaluate
    \/ Report

Spec == Init /\ [][Next]_vars

-----------------------------------------------------------------------------
(* Properties *)

Collected == pc \in {"eval", "report", "done"}

Evaluated == pc \in {"report", "done"}

\* a >= 0 for a finite fraction
NonNeg(a) == a[2] > 0 /\ a[1] >= 0

NonNegInputs ==
    NonNeg(cac) /\ NonNeg(cfa) /\ NonNeg(ltgp) /\ NonNeg(low_cac_fraction)

RatioAtMost3 == ratio[2] # 0 /\ ratio[1] <= 3 * ratio[2]

\* C1: for non-negative inputs the verdict is the entry of the table over
\* the computed ratio, net_outlay and the two printed labels.
C1_VerdictTable ==
    (Evaluated /\ NonNegInputs) =>
        verdict =
            IF RatioAtMost3
            THEN IF net_outlay[1] = 0 THEN "WarningSmallProfit"
                 ELSE "Unsustainable"
            ELSE IF net_outlay[1] = 0 THEN "Excellent"
                 ELSE IF cac_label = "Low" THEN "Good"
                 ELSE IF cfa_label = "High" THEN "Caution"
                 ELSE "Fragile"

C1_Witness ==
    /\ pc = "done" /\ NonNegInputs
    /\ ratio = F(3) /\ net_outlay[1] > 0 /\ verdict = "Unsustainable"

ClampedFraction ==
    IF low_cac_fraction[1] < 0 THEN <<0, 1>>
    ELSE IF low_cac_fraction[1] > low_cac_fraction[2] THEN <<1, 1>>
    ELSE low_cac_fraction

C3_NonNegativeInputs ==
    Collected =>
        NonNeg(cac) /\ NonNeg(cfa) /\ NonNeg(ltgp) /\ NonNeg(early_gp)

\* C4: the period unit handed to the evaluation is one of days, weeks,
\* months, years, on both acquisition paths.
C4_RecognizedPeriod ==
    Collected => period \in {Days, Weeks, Months, Years}

\* C5: the payback is present exactly when early_gp_rate > 0 and is then
\* max(cac - cfa, 0) / early_gp_rate; when early_gp_rate = 0 the payback and
\* its days equivalent are absent and the report says it could not be
\* estimated.
C5_Payback ==
    /\ Evaluated =>
          /\ (ppd_est # None) <=> (early_gp[1] > 0)
          /\ ppd_est # None =>
                LET d == cac[1] * cfa[2] - cfa[1] * cac[2]
                    n == IF d > 0 THEN d ELSE 0
                IN  ppd_est[1][1] * early_gp[1] * cac[2] * cfa[2]
                        = n * early_gp[2] * ppd_est[1][2]
    /\ (pc = "done" /\ early_gp[1] = 0) =>
          ppd_est = None /\ days_equiv = None /\ console = "no_payback"
    /\ (pc = "done" /\ early_gp[1] > 0) =>
          days_equiv # None /\ console = "payback"

C5_Witness ==
    /\ pc = "done" /\ cac = F(22) /\ cfa = F(1) /\ early_gp = F(2)
    /\ ppd_est = Some(<<21, 2>>)

PeriodFactor ==
    IF period = Weeks THEN 7
    ELSE IF period = Months THEN 30
    ELSE IF period = Years THEN 365
    ELSE 1

\* C6: a payback that is present is reported with its days equivalent, the
\* payback times 1 (days), 7 (weeks), 30 (months), 365 (years), or times 1
\* for any other unit string.
C6_DaysEquivalent ==
    (pc = "done" /\ ppd_est # None) =>
        /\ days_equiv # None
        /\ days_equiv[1][1] * ppd_est[1][2]
              = PeriodFactor * ppd_est[1][1] * days_equiv[1][2]

C6_Witness ==
    /\ pc = "done" /\ period = Months
    /\ ppd_est = Some(<<1, 2>>) /\ days_equiv = Some(F(15))

CfaProbes == {<<n, 2>> : n \in {1, 3, 5, 7, 45}} \cup {F(n) : n \in 0..4}

\* C7: with the other inputs fixed, a larger cfa gives a net_outlay that is
\* no larger and never turns cfa_label from High to Low.
C7_MonotoneInCfa ==
    Evaluated =>
        \A a2 \in CfaProbes :
            FLe(cfa, a2) =>
                /\ FLe(NetOutlay(cac, a2), net_outlay)
                /\ cfa_label = "High" => CfaLabel(a2, cac) = "High"

C7_Witness ==
    /\ pc = "done" /\ cac = F(2) /\ cfa = F(1)
    /\ net_outlay = F(1) /\ cfa_label = "High"

Numeral(line) ==
    LET c == Trim(SelectSeq(line, LAMBDA x : x \notin {"$", ","}))
        b == IF c # <<>> /\ c[1] = "-" THEN Tail(c) ELSE c
    IN  b # <<>> /\ \A i \in 1..Len(b) : b[i] \in {"1", "2"}

NumeralClamped(line) ==
    LET c == Trim(SelectSeq(line, LAMBDA x : x \notin {"$", ","}))
    IN  IF c[1] = "-" THEN Zero ELSE F(DecVal(c))

\* C9: the numeric prompt returns only for a blank line when it has a
\* default (the default clamped to >= 0) or for a line that parses to a
\* finite number (that number clamped to >= 0); any other line is rejected
\* and the same prompt is shown again; a value it returned is finite and
\* non-negative.
C9_PromptF64 ==
    /\ [][(pc \in NumFields /\ input # NoInput) =>
            LET line == input[1]
                d    == DefaultOf(pc)
            IN  IF line = <<>> /\ d # None
                THEN /\ pc' = NextPc(pc)
                     /\ coll'[pc] = (IF d[1][1] < 0 THEN Zero ELSE d[1])
                ELSE IF Numeral(line)
                THEN /\ pc' = NextPc(pc)
                     /\ coll'[pc] = NumeralClamped(line)
                ELSE /\ pc' = pc
                     /\ coll' = coll
                     /\ console' = "invalid_number"
                     /\ input' = NoInput]_vars
    /\ [](\A f \in NumFields :
            (args[f] = None /\ coll[f] # Unset) => NonNeg(coll[f]))

C9_Witness ==
    /\ pc = "cfa" /\ args.cac = None /\ coll["cac"] = Zero
    /\ args.cfa = None /\ console = "invalid_number" /\ input = NoInput

\* C10: for non-negative inputs net_outlay = 0 implies cfa_label = High, so
\* Excellent and WarningSmallProfit come only with SelfFundingGrowth or
\* DeferredCashRisk, and Fragile only with CapitalIntensiveTrap.
C10_VerdictQuadrant ==
    (Evaluated /\ NonNegInputs) =>
        /\ net_outlay = Zero => cfa_label = "High"
        /\ verdict \in {"Excellent", "WarningSmallProfit"} =>
              quadrant \in {"SelfFundingGrowth", "DeferredCashRisk"}
        /\ verdict = "Fragile" => quadrant = "CapitalIntensiveTrap"

C10_Witness ==
    /\ pc = "done" /\ NonNegInputs /\ cac[1] > 0
    /\ net_outlay = Zero /\ verdict = "WarningSmallProfit"
    /\ quadrant = "DeferredCashRisk"

====
